---- MODULE Spec2Model ----
(***************************************************************************)
(* A model of checkupy/onnx_models.py: the OnnxModel adapter, which turns  *)
(* an ndarray, a DataFrame or a dict into the float32 matrix handed to an  *)
(* onnxruntime session and shapes the session's output like the input.     *)
(***************************************************************************)
EXTENDS Integers, Sequences, FiniteSets, TLC

(***************************************************************************)
(* Bounds of the model.                                                    *)
(***************************************************************************)
\* largest number of rows of an array or a table, longest sequence in a dict
MaxRows == 2
\* largest number of columns of an array or a table
MaxCols == 2
\* calls of predict explored in one behaviour
MaxCalls == 2
\* changes the caller makes to the list objects in one behaviour
MaxMutations == 1

(***************************************************************************)
(* float32: numpy's astype(np.float32) on an integer value keeps 24        *)
(* significant bits and rounds to nearest, ties to even.                   *)
(***************************************************************************)
F32MantissaBits == 24

RECURSIVE Pow2(_)
Pow2(n) == IF n = 0 THEN 1 ELSE 2 * Pow2(n - 1)

RECURSIVE Quantum(_, _)
Quantum(x, q) == IF x < Pow2(F32MantissaBits) * q THEN q ELSE Quantum(x, 2 * q)

Abs(x) == IF x < 0 THEN -x ELSE x

F32(x) ==
    LET a == Abs(x)
        q == Quantum(a, 1)
        m == a \div q
        rem == a - m * q
        up == (2 * rem > q) \/ (2 * rem = q /\ m % 2 = 1)
        r == IF up THEN (m + 1) * q ELSE m * q
    IN IF x < 0 THEN -r ELSE r

(***************************************************************************)
(* Values: arrays are records [shape, rows] (row-major), tables are        *)
(* records [columns, index, cols] (one value sequence per column).         *)
(***************************************************************************)
NoVals == [shape |-> <<>>, rows |-> <<>>]

Array2D(N, k, rows) == [shape |-> <<N, k>>, rows |-> rows]

\* ndarray.astype(np.float32)
AsType(arr) ==
    [shape |-> arr.shape,
     rows |-> [r \in 1..Len(arr.rows) |->
                 [c \in 1..Len(arr.rows[r]) |-> F32(arr.rows[r][c])]]]

\* the N x k array whose columns are the given value sequences of length N
FromColumns(N, cols) ==
    Array2D(N, Len(cols),
            [r \in 1..N |-> [c \in 1..Len(cols) |-> cols[c][r]]])

\* column c of a 2-D array, as a sequence
ColumnOf(arr, c) == [r \in 1..arr.shape[1] |-> arr.rows[r][c]]

RECURSIVE Sum(_)
Sum(s) == IF s = <<>> THEN 0 ELSE Head(s) + Sum(Tail(s))

RECURSIVE Flat(_)
\* ndarray.flatten() of a sequence of rows: row-major
Flat(rows) == IF rows = <<>> THEN <<>> ELSE Head(rows) \o Flat(Tail(rows))

Range(s) == {s[i] : i \in 1..Len(s)}

(***************************************************************************)
(* The inputs a caller may pass to predict.                                *)
(***************************************************************************)
\* feature names given at construction, and one name no model declares
InputLabelChoices == {<<"a">>, <<"b", "a">>}
OutputLabelChoices == {<<"x">>, <<"x", "y">>}
ColumnNames == {"a", "b", "c"}
KeySets == {{}, {"a"}, {"b"}, {"a", "b"}, {"a", "c"}}

\* cell values: a small one, and one that float32 cannot hold exactly
Vals == {1, 16777217}

\* a value sequence of length N starting at v
Ramp(v, N) == [r \in 1..N |-> v + 2 * (r - 1)]

\* the default RangeIndex of pandas, and an index that is not contiguous
RangeIndex(N) == [r \in 1..N |-> r - 1]
IndexChoices(N) == {RangeIndex(N), [r \in 1..N |-> 10 * (N - r) + 3]}

Ndarray(shape, rows) == [kind |-> "ndarray", shape |-> shape, rows |-> rows]

\* 2-D arrays of every shape (N, k), N = 0 and k = 0 included
Matrices ==
    {Ndarray(<<N, Len(seeds)>>,
             FromColumns(N, [c \in 1..Len(seeds) |-> Ramp(seeds[c], N)]).rows) :
        <<N, seeds>> \in (0..MaxRows) \X UNION {[1..k -> Vals] : k \in 0..MaxCols}}

\* arrays of 0, 1 and 3 dimensions
OtherArrays ==
    {Ndarray(<<>>, <<>>)}
    \cup {Ndarray(<<n>>, <<>>) : n \in 0..MaxCols}
    \cup {Ndarray(<<N, k, 1>>, <<>>) : <<N, k>> \in (0..MaxRows) \X (1..MaxCols)}

DataFrame(columns, index, cols) ==
    [kind |-> "dataframe", columns |-> columns, index |-> index, cols |-> cols]

\* tables with any column names (repeated names included) in any order,
\* empty or of MaxRows rows
Tables ==
    UNION {
      UNION {
        {DataFrame([c \in 1..k |-> named[c][1]], index,
                   [c \in 1..k |-> Ramp(named[c][2], N)]) :
            <<named, index>> \in [1..k -> ColumnNames \X Vals] \X IndexChoices(N)}
        : N \in {0, MaxRows}}
      : k \in 0..MaxCols}

\* the values of a dict: scalars, lists, Series, and DataFrames of two columns;
\* each holds its shape and its cells as a sequence of rows
DictValue(kind, shape, rows) == [kind |-> kind, shape |-> shape, rows |-> rows]
Scalars == {DictValue("scalar", <<>>, <<<<v>>>>) : v \in Vals}
Lists ==
    {DictValue("list", <<N>>, <<Ramp(v, N)>>) : <<v, N>> \in Vals \X {0, 1, MaxRows}}
SeriesValues ==
    {DictValue("series", <<N>>, <<Ramp(v, N)>>) : <<v, N>> \in Vals \X {1, MaxRows}}
Frames ==
    {DictValue("frame", <<N, 2>>, FromColumns(N, <<Ramp(1, N), Ramp(v, N)>>).rows) :
        <<v, N>> \in Vals \X {1, MaxRows}}
DictValues == Scalars \cup Lists \cup SeriesValues \cup Frames

Dict(items) == [kind |-> "dict", items |-> items]
Dicts == UNION {{Dict(items) : items \in [K -> DictValues]} : K \in KeySets}

\* inputs that are neither an ndarray, a DataFrame nor a dict
Others ==
    {[kind |-> "scalar", shape |-> <<>>, rows |-> <<>>],
     [kind |-> "str", shape |-> <<>>, rows |-> <<>>],
     [kind |-> "series", shape |-> <<2>>, rows |-> <<>>]}
    \cup {[kind |-> "list", shape |-> m.shape, rows |-> m.rows] : m \in Matrices}

Inputs == Matrices \cup OtherArrays \cup Tables \cup Dicts \cup Others

(***************************************************************************)
(* OnnxModel.predict, step by step.                                        *)
(***************************************************************************)
NoMsg == [text |-> "", target_cols |-> 0, labels |-> <<>>]

\* f"Expected input tensor with shape (N, {target_cols})"
wrong_cols(target_cols) ==
    [text |-> "Expected input tensor with shape (N, target_cols)",
     target_cols |-> target_cols, labels |-> <<>>]

\* f"DataFrame must contain columns: {self._input_labels}"
col_list(labels) ==
    [text |-> "DataFrame must contain columns", target_cols |-> 0, labels |-> labels]

unsupported_input == [text |-> "Unsupported input type", target_cols |-> 0, labels |-> <<>>]

\* numpy's and pandas' own complaints (ragged concatenate, shape of passed values)
library_error == [text |-> "raised by numpy or pandas", target_cols |-> 0, labels |-> <<>>]

Normalized(vals, source) ==
    [raised |-> "none", msg |-> NoMsg, vals |-> vals, source |-> source]

Raise(exc, msg) == [raised |-> exc, msg |-> msg, vals |-> NoVals, source |-> "none"]

\* a variant that also takes a plain list of rows for an array
IsArrayLike(data) == data.kind \in {"ndarray", "list"}

\* the three isinstance tests
IsNdarray(data) == data.kind = "ndarray"
IsDataFrame(data) == data.kind = "dataframe"
IsDict(data) == data.kind = "dict"

\* a variant that tests the rank alone
NdarrayRejectedRankOnly(data, target_cols) == Len(data.shape) # 2

\* data.ndim != 2 or data.shape[1] != target_cols
NdarrayRejected(data, target_cols) ==
    Len(data.shape) # 2 \/ data.shape[2] # target_cols

\* a variant with any() in the place of all()
HasAnyColumn(data, labels) ==
    \E i \in 1..Len(labels) : labels[i] \in Range(data.columns)

\* all(label in data.columns for label in self._input_labels)
HasColumns(data, labels) ==
    \A i \in 1..Len(labels) : labels[i] \in Range(data.columns)

\* all(label in data.keys() for label in self._input_labels)
HasKeys(data, labels) ==
    \A i \in 1..Len(labels) : labels[i] \in DOMAIN data.items

\* the positions of the columns called label, in the table's order
Locate(columns, label) ==
    SelectSeq([p \in 1..Len(columns) |-> p], LAMBDA p : columns[p] = label)

RECURSIVE Select(_, _)
\* data[labels]: for each label in turn, every column of that name
Select(columns, labels) ==
    IF labels = <<>> THEN <<>>
    ELSE Locate(columns, Head(labels)) \o Select(columns, Tail(labels))

\* data[self._input_labels].values.astype(np.float32)
DataFrameVals(data, labels) ==
    LET pos == Select(data.columns, labels)
    IN AsType(FromColumns(Len(data.index), [i \in 1..Len(pos) |-> data.cols[pos[i]]]))

\* np.atleast_1d: a scalar becomes an array of one element
AtLeast1d(value) ==
    IF value.shape = <<>> THEN [value EXCEPT !.shape = <<1>>] ELSE value

\* ndarray.astype(np.float32).flatten()
AsTypeFlatten(rows) ==
    LET flat == Flat(rows) IN [i \in 1..Len(flat) |-> F32(flat[i])]

\* data[i].values.astype(np.float32).flatten() for a Series or a DataFrame,
\* np.atleast_1d(data[i]).astype(np.float32).flatten() for anything else
Coerce(value) ==
    IF value.kind \in {"series", "frame"}
    THEN AsTypeFlatten(value.rows)
    ELSE AsTypeFlatten(AtLeast1d(value).rows)

\* a variant that stacks the columns in the reverse of the labels' order
DictColumnsReversed(items, labels) ==
    [j \in 1..Len(labels) |-> Coerce(items[labels[Len(labels) + 1 - j]])]

\* for i in self._input_labels: vals.append(...)
DictColumns(items, labels) == [j \in 1..Len(labels) |-> Coerce(items[labels[j]])]

\* np.concatenate([i.reshape(-1, 1) for i in vals], axis=1): numpy refuses an
\* empty list and columns of different lengths
Concatenate(columns) ==
    IF columns = <<>> \/ \E j \in 1..Len(columns) : Len(columns[j]) # Len(columns[1])
    THEN Raise("ValueError", library_error)
    ELSE Normalized(FromColumns(Len(columns[1]), columns), "dict")

\* lines 45-71: the matrix for the engine, or the exception raised
Normalize(data, labels) ==
    LET target_cols == Len(labels)
    IN IF IsNdarray(data)
       THEN IF NdarrayRejected(data, target_cols)
            THEN Raise("ValueError", wrong_cols(target_cols))
            ELSE Normalized(AsType([shape |-> data.shape, rows |-> data.rows]), "ndarray")
       ELSE IF IsDataFrame(data)
       THEN IF ~HasColumns(data, labels)
            THEN Raise("ValueError", col_list(labels))
            ELSE Normalized(DataFrameVals(data, labels), "dataframe")
       ELSE IF IsDict(data)
       THEN IF ~HasKeys(data, labels)
            THEN Raise("ValueError", col_list(labels))
            ELSE Concatenate(DictColumns(data.items, labels))
       ELSE Raise("TypeError", unsupported_input)

\* self.session.run(None, inputs)[0]: the engine is external; this stand-in
\* returns, for each row, the float32 sum of the row plus the output's position
SessionRun(out_width, vals) ==
    Array2D(vals.shape[1], out_width,
            [r \in 1..vals.shape[1] |->
               [j \in 1..out_width |-> F32(Sum(vals.rows[r]) + j - 1)]])

\* a variant that runs the engine a second time when the first run fails
InvokeRetry(out_width, vals, engine_ok) ==
    [runs |-> IF engine_ok THEN 1 ELSE 2,
     failure |-> IF engine_ok THEN "ok" ELSE "EngineError",
     outputs |-> IF engine_ok THEN SessionRun(out_width, vals) ELSE NoVals]

\* lines 74-75: one run of the engine, which may fail
Invoke(out_width, vals, engine_ok) ==
    [runs |-> 1,
     failure |-> IF engine_ok THEN "ok" ELSE "EngineError",
     outputs |-> IF engine_ok THEN SessionRun(out_width, vals) ELSE NoVals]

NoResult == [kind |-> "none"]

Min(a, b) == IF a < b THEN a ELSE b

\* {i: v.astype(np.float32).flatten() for i, v in zip(self.output_labels, outputs.T)}
DictResult(outputs, output_labels) ==
    LET n == Min(Len(output_labels), outputs.shape[2])
        last_of(name) == CHOOSE j \in 1..n :
            /\ output_labels[j] = name
            /\ \A i \in (j + 1)..n : output_labels[i] # name
    IN [raised |-> "none",
        result |-> [kind |-> "dict",
                    items |-> [name \in {output_labels[j] : j \in 1..n} |->
                       LET col == ColumnOf(outputs, last_of(name))
                       IN [r \in 1..Len(col) |-> F32(col[r])]]]]

\* a variant that leaves the result with pandas' default index
DataFrameResultDefaultIndex(outputs, index, output_labels) ==
    IF outputs.shape # <<Len(index), Len(output_labels)>>
    THEN [raised |-> "ValueError", result |-> NoResult]
    ELSE [raised |-> "none",
          result |-> DataFrame(output_labels, RangeIndex(Len(index)),
                       [j \in 1..Len(output_labels) |-> ColumnOf(outputs, j)])]

\* pd.DataFrame(data=outputs, index=data.index, columns=self.output_labels):
\* pandas refuses values whose shape is not (len(index), len(columns))
DataFrameResult(outputs, index, output_labels) ==
    IF outputs.shape # <<Len(index), Len(output_labels)>>
    THEN [raised |-> "ValueError", result |-> NoResult]
    ELSE [raised |-> "none",
          result |-> DataFrame(output_labels, index,
                       [j \in 1..Len(output_labels) |-> ColumnOf(outputs, j)])]

\* lines 78-94
Denormalize(source, outputs, data, output_labels) ==
    IF source = "ndarray"
    THEN [raised |-> "none", result |-> Ndarray(outputs.shape, outputs.rows)]
    ELSE IF source = "dict" THEN DictResult(outputs, output_labels)
    ELSE IF source = "dataframe" THEN DataFrameResult(outputs, data.index, output_labels)
    ELSE [raised |-> "TypeError", result |-> NoResult]

NoCall ==
    [called |-> FALSE, raised |-> "none", msg |-> NoMsg, vals |-> NoVals,
     runs |-> 0, engine |-> "not run", result |-> NoResult]

\* lines 38-94: what one call of predict raises, binds, runs and returns
predict(data, input_labels, output_labels, out_width, engine_ok) ==
    LET n == Normalize(data, input_labels)
    IN IF n.raised # "none"
       THEN [called |-> TRUE, raised |-> n.raised, msg |-> n.msg, vals |-> NoVals,
             runs |-> 0, engine |-> "not run", result |-> NoResult]
       ELSE LET run == Invoke(out_width, n.vals, engine_ok)
            IN IF run.failure # "ok"
               THEN [called |-> TRUE, raised |-> run.failure, msg |-> NoMsg,
                     vals |-> n.vals, runs |-> run.runs, engine |-> run.failure,
                     result |-> NoResult]
               ELSE LET d == Denormalize(n.source, run.outputs, data, output_labels)
                    IN [called |-> TRUE, raised |-> d.raised,
                        msg |-> IF d.raised = "none" THEN NoMsg ELSE library_error,
                        vals |-> n.vals, runs |-> run.runs, engine |-> "ok",
                        result |-> d.result]

(***************************************************************************)
(* The state: the OnnxModel object, the list objects its label fields      *)
(* refer to, the engine session, and the caller.                           *)
(***************************************************************************)
VARIABLES
    lists,      \* the list objects in memory: reference -> sequence of names
    self,       \* the fields _input_labels and _output_labels: references
    session,    \* the engine session: its output width and its count of runs
    ctor,       \* the label sequences as they were given to __init__
    held,       \* the references to list objects the caller holds
    data,       \* the object the caller passes to predict
    calls,      \* the number of calls of predict so far
    mutations,  \* the number of changes the caller has made to the list objects
    last        \* what the latest call of predict did

vars == <<lists, self, session, ctor, held, data, calls, mutations, last>>

\* lines 18-28: __init__ stores the lists it is given, not copies of them.
\* The model file declares as many outputs as there are output labels.
Init ==
    /\ \E il \in InputLabelChoices, ol \in OutputLabelChoices :
          /\ lists = [Lin |-> il, Lout |-> ol]
          /\ ctor = [input_labels |-> il, output_labels |-> ol]
          /\ session = [out_width |-> Len(ol), run_count |-> 0]
    /\ self = [_input_labels |-> "Lin", _output_labels |-> "Lout"]
    /\ held \in {{}, {"Lin", "Lout"}}
    /\ data \in Inputs
    /\ calls = 0
    /\ mutations = 0
    /\ last = NoCall

\* lines 38-94
Predict ==
    /\ calls < MaxCalls
    /\ \E engine_ok \in BOOLEAN :
          LET r == predict(data, lists[self._input_labels], lists[self._output_labels],
                           session.out_width, engine_ok)
          IN /\ last' = r
             /\ session' = [session EXCEPT !.run_count = @ + r.runs]
    /\ calls' = calls + 1
    /\ UNCHANGED <<lists, self, ctor, held, data, mutations>>

\* lines 96-97: __call__ returns self.predict(data)
Call ==
    /\ calls < MaxCalls
    /\ \E engine_ok \in BOOLEAN :
          LET r == predict(data, lists[self._input_labels], lists[self._output_labels],
                           session.out_width, engine_ok)
          IN /\ last' = r
             /\ session' = [session EXCEPT !.run_count = @ + r.runs]
    /\ calls' = calls + 1
    /\ UNCHANGED <<lists, self, ctor, held, data, mutations>>

\* lines 30-32: the property returns the list object itself
ReadInputLabels ==
    /\ held' = held \cup {self._input_labels}
    /\ UNCHANGED <<lists, self, session, ctor, data, calls, mutations, last>>

\* lines 34-36
ReadOutputLabels ==
    /\ held' = held \cup {self._output_labels}
    /\ UNCHANGED <<lists, self, session, ctor, data, calls, mutations, last>>

Next == Predict \/ Call \/ ReadInputLabels \/ ReadOutputLabels

Spec == Init /\ [][Next]_vars

(***************************************************************************)
(* The caller and the list objects it shares with the OnnxModel.           *)
(***************************************************************************)
\* the names the caller writes into a list
LabelNames == {"b", "c"}

\* inputs of one row, enough to see what the labels in use are
SampleInputs ==
    {d \in Matrices : d.shape[1] = 1}
    \cup {d \in Dicts : \A k \in DOMAIN d.items : d.items[k].kind = "scalar"}
    \cup {[kind |-> "str", shape |-> <<>>, rows |-> <<>>]}

InitCaller == Init /\ data \in SampleInputs

\* lst.append(name) on a list object the caller holds
CallerAppend ==
    /\ mutations < MaxMutations
    /\ \E ref \in held, name \in LabelNames :
          /\ lists' = [lists EXCEPT ![ref] = Append(@, name)]
    /\ mutations' = mutations + 1
    /\ UNCHANGED <<self, session, ctor, held, data, calls, last>>

\* lst.pop()
CallerPop ==
    /\ mutations < MaxMutations
    /\ \E ref \in held :
          /\ lists[ref] # <<>>
          /\ lists' = [lists EXCEPT ![ref] = SubSeq(@, 1, Len(@) - 1)]
    /\ mutations' = mutations + 1
    /\ UNCHANGED <<self, session, ctor, held, data, calls, last>>

\* lst[i] = name
CallerSetItem ==
    /\ mutations < MaxMutations
    /\ \E ref \in held, name \in LabelNames :
          \E i \in 1..Len(lists[ref]) :
             lists' = [lists EXCEPT ![ref][i] = name]
    /\ mutations' = mutations + 1
    /\ UNCHANGED <<self, session, ctor, held, data, calls, last>>

NextCaller ==
    \/ Predict \/ Call \/ ReadInputLabels \/ ReadOutputLabels
    \/ CallerAppend \/ CallerPop \/ CallerSetItem

SpecCaller == InitCaller /\ [][NextCaller]_vars

(***************************************************************************)
(* Properties.                                                             *)
(***************************************************************************)
InputLabels == lists[self._input_labels]
OutputLabels == lists[self._output_labels]

IndexOf(seq, x) == CHOOSE i \in 1..Len(seq) : seq[i] = x

IsMatrixFor(d, labels) ==
    d.kind = "ndarray" /\ Len(d.shape) = 2 /\ d.shape[2] = Len(labels)

\* the content of the matrix m as a table whose columns are named by labels
TableOf(m, labels) ==
    DataFrame(labels, RangeIndex(m.shape[1]),
              [j \in 1..Len(labels) |-> ColumnOf(m, j)])

\* the content of the matrix m as a dict of one list per label
MappingOf(m, labels) ==
    Dict([name \in Range(labels) |->
            DictValue("list", <<m.shape[1]>>, <<ColumnOf(m, IndexOf(labels, name))>>)])

\* C1: a Matrix, the Table and the Mapping of the same content bind the same
\* matrix to the engine, and column OutputLabels[j] of the Table result and entry
\* OutputLabels[j] of the Mapping result equal column j of the Matrix result.
C1_SameContentSamePrediction ==
    (last.called /\ IsMatrixFor(data, InputLabels) /\ last.raised = "none") =>
        LET t == predict(TableOf(data, InputLabels), InputLabels, OutputLabels,
                         session.out_width, TRUE)
            d == predict(MappingOf(data, InputLabels), InputLabels, OutputLabels,
                         session.out_width, TRUE)
        IN /\ t.raised = "none" /\ d.raised = "none"
           /\ t.vals = last.vals /\ d.vals = last.vals
           /\ t.result.kind = "dataframe" /\ d.result.kind = "dict"
           /\ t.result.columns = OutputLabels
           /\ DOMAIN d.result.items = Range(OutputLabels)
           /\ \A j \in 1..Len(OutputLabels) :
                 /\ t.result.cols[j] = ColumnOf(last.result, j)
                 /\ d.result.items[OutputLabels[j]] = ColumnOf(last.result, j)

C1_Witness ==
    /\ last.called /\ IsMatrixFor(data, InputLabels) /\ last.raised = "none"
    /\ Len(InputLabels) = 2 /\ Len(OutputLabels) = 2
    /\ data.shape[1] = MaxRows
    /\ data.rows[1][1] # data.rows[1][2]

MissingLabel(d, labels) ==
    \/ d.kind = "dataframe" /\ \E i \in 1..Len(labels) : labels[i] \notin Range(d.columns)
    \/ d.kind = "dict" /\ \E i \in 1..Len(labels) : labels[i] \notin DOMAIN d.items

\* C2: a Table or a Mapping from which a name of InputLabels is absent makes
\* predict raise the column error, with no result, no matrix and no engine run.
C2_MissingLabelRejected ==
    (last.called /\ MissingLabel(data, InputLabels)) =>
        /\ last.raised = "ValueError"
        /\ last.msg = col_list(InputLabels)
        /\ last.result.kind = "none"
        /\ last.vals = NoVals
        /\ last.runs = 0
        /\ session.run_count = 0

C2_Witness ==
    /\ last.called /\ data.kind = "dataframe" /\ MissingLabel(data, InputLabels)
    /\ \E i \in 1..Len(InputLabels) : InputLabels[i] \in Range(data.columns)
    /\ "c" \in Range(data.columns)
    /\ last.raised = "ValueError"

WrongShape(d, labels) ==
    d.kind = "ndarray" /\ (Len(d.shape) # 2 \/ d.shape[2] # Len(labels))

\* C3: an array that is not 2-dimensional, or of shape (N, k) with k other than
\* len(InputLabels), N = 0 included, makes predict raise the shape error, with no
\* result and no engine run.
C3_WrongShapeRejected ==
    (last.called /\ WrongShape(data, InputLabels)) =>
        /\ last.raised = "ValueError"
        /\ last.msg = wrong_cols(Len(InputLabels))
        /\ last.result.kind = "none"
        /\ last.vals = NoVals
        /\ last.runs = 0
        /\ session.run_count = 0

C3_Witness ==
    /\ last.called /\ WrongShape(data, InputLabels)
    /\ data.shape = <<0, Len(InputLabels) + 1>>
    /\ last.raised = "ValueError"

\* C4: a successful predict on a Table that has all InputLabels returns a Table
\* of as many rows, with the input's index and the columns OutputLabels in order.
C4_TableKeepsIndex ==
    (last.called /\ data.kind = "dataframe" /\ ~MissingLabel(data, InputLabels)
        /\ last.raised = "none") =>
        /\ last.result.kind = "dataframe"
        /\ last.result.index = data.index
        /\ last.result.columns = OutputLabels
        /\ Len(last.result.cols) = Len(OutputLabels)
        /\ \A j \in 1..Len(last.result.cols) :
              Len(last.result.cols[j]) = Len(data.index)

C4_Witness ==
    /\ last.called /\ data.kind = "dataframe" /\ ~MissingLabel(data, InputLabels)
    /\ last.raised = "none"
    /\ Len(data.index) = MaxRows
    /\ data.index # RangeIndex(MaxRows)
    /\ Len(OutputLabels) = 2

\* C8: an input that is neither an array, a Table nor a Mapping makes predict
\* raise TypeError, with no result and no engine run.
C8_UnsupportedTypeRejected ==
    (last.called /\ data.kind \notin {"ndarray", "dataframe", "dict"}) =>
        /\ last.raised = "TypeError"
        /\ last.msg = unsupported_input
        /\ last.result.kind = "none"
        /\ last.vals = NoVals
        /\ last.runs = 0
        /\ session.run_count = 0

C8_Witness ==
    /\ last.called /\ data.kind = "list" /\ data.shape = <<MaxRows, Len(InputLabels)>>
    /\ last.raised = "TypeError"

RECURSIVE Product(_)
Product(s) == IF s = <<>> THEN 1 ELSE Head(s) * Product(Tail(s))

\* the inputs predict has a matrix for: an array of shape (N, k), a Table with
\* every label, a Mapping with every label whose values hold equally many cells
Accepted(d, labels) ==
    \/ IsMatrixFor(d, labels)
    \/ d.kind = "dataframe" /\ ~MissingLabel(d, labels)
    \/ /\ d.kind = "dict" /\ ~MissingLabel(d, labels) /\ labels # <<>>
       /\ \A i, j \in 1..Len(labels) :
             Product(d.items[labels[i]].shape) = Product(d.items[labels[j]].shape)

\* C10: every call runs the engine at most once and only on a finished matrix:
\* once for each accepted input, again on every later call with the same input,
\* never for a rejected one; a failed run is raised as it is, with no second run
\* and no result.
C10_OneRunPerCall ==
    last.called =>
        /\ last.runs \in {0, 1}
        /\ Accepted(data, InputLabels) =>
              /\ last.runs = 1
              /\ session.run_count = calls
              /\ Len(last.vals.shape) = 2
        /\ ~Accepted(data, InputLabels) =>
              /\ last.runs = 0
              /\ session.run_count = 0
              /\ last.engine = "not run"
              /\ last.raised \in {"ValueError", "TypeError"}
        /\ last.engine = "EngineError" =>
              /\ last.raised = "EngineError"
              /\ last.runs = 1
              /\ last.result.kind = "none"

C10_Witness ==
    /\ calls = 2 /\ session.run_count = 2
    /\ last.engine = "EngineError" /\ last.raised = "EngineError"
    /\ data.kind = "dict"

\* the orders of n columns: the permutations of 1..n
ColumnOrders(n) ==
    {p \in [1..n -> 1..n] : \A i, j \in 1..n : p[i] = p[j] => i = j}

\* the table t with its columns in the order p
Permuted(t, p) ==
    DataFrame([c \in 1..Len(t.columns) |-> t.columns[p[c]]], t.index,
              [c \in 1..Len(t.columns) |-> t.cols[p[c]]])

\* the table t with one more column, called name, at position at
WithExtra(t, name, v, at) ==
    LET n == Len(t.columns)
        ins(seq, x) == SubSeq(seq, 1, at - 1) \o <<x>> \o SubSeq(seq, at, n)
    IN DataFrame(ins(t.columns, name), t.index,
                 ins(t.cols, Ramp(v, Len(t.index))))

SameOutcome(r1, r2) ==
    /\ r1.raised = r2.raised
    /\ r1.vals = r2.vals
    /\ r1.result.kind = r2.result.kind
    /\ r1.result.kind = "dataframe" =>
          /\ r1.result.columns = r2.result.columns
          /\ r1.result.index = r2.result.index
          /\ r1.result.cols = r2.result.cols

\* C5: for a Table that has all InputLabels, every permutation of its columns
\* and every added column whose name is not in InputLabels binds the same matrix
\* and returns the same result.
C5_ColumnOrderIrrelevant ==
    (last.called /\ data.kind = "dataframe" /\ ~MissingLabel(data, InputLabels)
        /\ last.engine = "ok") =>
        /\ \A p \in ColumnOrders(Len(data.columns)) :
              SameOutcome(predict(Permuted(data, p), InputLabels, OutputLabels,
                                  session.out_width, TRUE), last)
        /\ \A name \in ColumnNames \ Range(InputLabels), v \in Vals,
              at \in 1..(Len(data.columns) + 1) :
              SameOutcome(predict(WithExtra(data, name, v, at), InputLabels,
                                  OutputLabels, session.out_width, TRUE), last)

\* C6: the labels in use stay equal to the sequences given at construction.
C6_LabelsNeverChange ==
    /\ lists[self._input_labels] = ctor.input_labels
    /\ lists[self._output_labels] = ctor.output_labels

\* the Mappings of C7: every label is a key, every value is a scalar, a list or
\* a Series, and the lists and Series all have the same length N >= 1
ScalarsAndSequences(d, labels, N) ==
    /\ d.kind = "dict" /\ ~MissingLabel(d, labels)
    /\ \A i \in 1..Len(labels) :
          \/ d.items[labels[i]].kind = "scalar"
          \/ /\ d.items[labels[i]].kind \in {"list", "series"}
             /\ d.items[labels[i]].shape = <<N>>

\* C7: a Mapping of scalars and of sequences of one length N is brought to the
\* (N, len(InputLabels)) matrix; predict does not fail on it.
C7_ScalarsConform ==
    \A N \in 1..MaxRows :
        (last.called /\ ScalarsAndSequences(data, InputLabels, N)
            /\ \E i \in 1..Len(InputLabels) : data.items[InputLabels[i]].kind # "scalar")
        => /\ last.raised \notin {"ValueError", "TypeError"}
           /\ last.vals.shape = <<N, Len(InputLabels)>>

\* the caller's values for the label name, as float32
CallerColumns(d, labels, j) ==
    IF d.kind = "ndarray" THEN {AsTypeFlatten(<<ColumnOf(d, j)>>)}
    ELSE IF d.kind = "dataframe"
    THEN {AsTypeFlatten(<<d.cols[p]>>) : p \in {q \in 1..Len(d.columns) : d.columns[q] = labels[j]}}
    ELSE {AsTypeFlatten(d.items[labels[j]].rows)}

\* C9: whenever the engine runs, its input is 2-dimensional with exactly
\* len(InputLabels) columns, and column j holds the caller's values for label j.
C9_BoundTensorShape ==
    (last.called /\ last.runs >= 1) =>
        /\ Len(last.vals.shape) = 2
        /\ last.vals.shape[2] = Len(InputLabels)
        /\ \A j \in 1..Len(InputLabels) :
              ColumnOf(last.vals, j) \in CallerColumns(data, InputLabels, j)

====
